---- MODULE Spec2Model ----
(***************************************************************************)
(* EnvironmentalAudioEngine: the lifecycle (start / stop), the sporadic   *)
(* pulse timers, the environmental snapshot and the mapping from the      *)
(* snapshot to oscillator frequencies, for the two engine variants of the *)
(* repository:                                                            *)
(*   "B"  src/audio-engine.js     solar/compass harmonic series, all 8    *)
(*                                oscillators sporadic                    *)
(*   "A"  src/unnamed/part_000    8 fixed octaves with per-channel drift, *)
(*                                oscillators 5 and 7 intermittent        *)
(*                                                                         *)
(* Units.  Frequencies are integers in tenths of a hertz (deciHz), gains  *)
(* in thousandths, angles in whole degrees, timeOfDay and Math.random()   *)
(* in thousandths, the compass interval and the harmonic tables in        *)
(* thousandths.  Divisions round down; the sun elevation is rounded to    *)
(* the nearest whole degree (Sin, Cos and Asin work on a one-degree       *)
(* table).                                                                *)
(*                                                                         *)
(* The variables marked "history" record what a step did (op, emitted)    *)
(* and count what has happened (run, starts, fires, faults, lastSet); the *)
(* engine reads none of them.  A timer record carries the number of the   *)
(* run in which its pulse chain was started.                              *)
(*                                                                         *)
(* Specifications.  Spec: the lifecycle, the resume retry and the pulse   *)
(* timers.  SpecData: the lifecycle, the snapshot and the observer.       *)
(* SpecMap: a started engine fed snapshots that sweep one field at a      *)
(* time, for the mapping functions.  SpecMix: the pulse timers together   *)
(* with the snapshot.                                                     *)
(***************************************************************************)
EXTENDS Integers, Sequences, FiniteSets, Bags, TLC

\* ------------------------------------------------------------------ bounds
MaxStarts == 2      \* start() calls in one behaviour
MaxFires == 2       \* scheduler timer callbacks that fire in one behaviour
MaxFaults == 1      \* backend operations that raise in one behaviour

\* --------------------------------------------------------- program constants
NumOscillators == 8
Channels == 0 .. (NumOscillators - 1)

Variants == {"A", "B"}

\* variant A: this.baseFrequencies, deciHz
baseFrequencies == <<550, 1100, 2200, 4400, 8800, 17600, 35200, 70400>>
\* variant A: this.oscillatorVolumes, thousandths
oscillatorVolumes == <<30, 30, 20, 25, 15, 20, 10, 8>>
\* variant A: this.intermittentOscillators
intermittentOscillators == {5, 7}
\* variant B: volume handed to fadeIn by scheduleSporadicPulse, thousandths
SporadicVolume == 40
\* variant B: initial oscillator.frequency.value, deciHz
InitialFrequency == 2000

MinFrequency == 200        \* 20 Hz
MaxFrequency == 200000     \* 20000 Hz

SporadicChannels(v) == IF v = "A" THEN intermittentOscillators ELSE Channels

\* ------------------------------------------------------------------ helpers
Min(a, b) == IF a < b THEN a ELSE b
Max(a, b) == IF a > b THEN a ELSE b
Abs(a) == IF a < 0 THEN -a ELSE a
\* the JavaScript % operator: the result takes the sign of the dividend
JsMod(a, b) == IF a >= 0 THEN a % b ELSE -((-a) % b)
\* division rounding toward zero, as a truncated product of signed factors
DivT(a, b) == IF a >= 0 THEN a \div b ELSE -((-a) \div b)

\* sin(d degrees) * 10000 for d = 0 .. 90
SinTable ==
  <<0, 175, 349, 523, 698, 872, 1045, 1219, 1392, 1564, 1736, 1908, 2079,
    2250, 2419, 2588, 2756, 2924, 3090, 3256, 3420, 3584, 3746, 3907, 4067,
    4226, 4384, 4540, 4695, 4848, 5000, 5150, 5299, 5446, 5592, 5736, 5878,
    6018, 6157, 6293, 6428, 6561, 6691, 6820, 6947, 7071, 7193, 7314, 7431,
    7547, 7660, 7771, 7880, 7986, 8090, 8192, 8290, 8387, 8480, 8572, 8660,
    8746, 8829, 8910, 8988, 9063, 9135, 9205, 9272, 9336, 9397, 9455, 9511,
    9563, 9613, 9659, 9703, 9744, 9781, 9816, 9848, 9877, 9903, 9925, 9945,
    9962, 9976, 9986, 9994, 9998, 10000>>

\* Math.sin of an angle in whole degrees, times 10000
Sin(d) ==
  LET m == d % 360
  IN  IF m <= 90 THEN SinTable[m + 1]
      ELSE IF m <= 180 THEN SinTable[180 - m + 1]
      ELSE IF m <= 270 THEN -SinTable[m - 180 + 1]
      ELSE -SinTable[360 - m + 1]

\* Math.cos of an angle in whole degrees, times 10000
Cos(d) == Sin(d + 90)

\* Math.asin of x / 10000, in whole degrees (the nearest table entry)
Asin(x) ==
  LET a  == Min(Abs(x), 10000)
      lo == Cardinality({d \in 0 .. 90 : SinTable[d + 1] <= a}) - 1
      up == Min(lo + 1, 90)
      d  == IF SinTable[up + 1] - a < a - SinTable[lo + 1] THEN up ELSE lo
  IN  IF x < 0 THEN -d ELSE d

\* -------------------------------------------------------------- the snapshot
\* the constructor's environmental parameters
DefaultEnv ==
  [latitude |-> 0, longitude |-> 0, speed |-> 0, temperature |-> 20,
   humidity |-> 50, heading |-> 0, timeOfDay |-> 500]

\* Math.max(20, undefined) in variant A's updateFrequencies
NaN == -1

\* ------------------------------------------- variant B: the mapping functions
\* calculateSunElevation as it would be if the hour angle were counted from
\* midnight
calculateSunElevationFromMidnight(e) ==
  LET hourAngle == (e.timeOfDay * 360) \div 1000
      declination == 0
      x == (Sin(e.latitude) * Sin(declination)) \div 10000
           + (((Cos(e.latitude) * Cos(declination)) \div 10000)
                * Cos(hourAngle) + 5000) \div 10000
      elevation == Asin(x)
  IN  Max(-90, Min(90, elevation))

\* calculateSunElevation(): degrees
calculateSunElevation(e) ==
  LET hourAngle == ((e.timeOfDay - 500) * 360) \div 1000
      declination == 0
      x == (Sin(e.latitude) * Sin(declination)) \div 10000
           + (((Cos(e.latitude) * Cos(declination)) \div 10000)
                * Cos(hourAngle) + 5000) \div 10000
      elevation == Asin(x)
  IN  Max(-90, Min(90, elevation))

\* getCompassInterval as it would be if the last quadrant fell by 0.25
getCompassIntervalShort(e) ==
  LET headingNorm == JsMod(e.heading, 360)
  IN  IF headingNorm < 90 THEN 1500 - (headingNorm * 250) \div 90
      ELSE IF headingNorm < 180 THEN 1250 + ((headingNorm - 90) * 164) \div 90
      ELSE IF headingNorm < 270 THEN 1414 + ((headingNorm - 180) * 364) \div 90
      ELSE 1778 - ((headingNorm - 270) * 250) \div 90

\* getCompassInterval(): thousandths
getCompassInterval(e) ==
  LET headingNorm == JsMod(e.heading, 360)
  IN  IF headingNorm < 90 THEN 1500 - (headingNorm * 250) \div 90
      ELSE IF headingNorm < 180 THEN 1250 + ((headingNorm - 90) * 164) \div 90
      ELSE IF headingNorm < 270 THEN 1414 + ((headingNorm - 180) * 364) \div 90
      ELSE 1778 - ((headingNorm - 270) * 278) \div 90

\* the divisor and multiplier tables of updateFrequencies, thousandths
SubharmonicIntervals == <<500, 670, 330, 250, 400, 200, 125>>
HarmonicIntervals == <<1500, 2000, 2500, 3000, 4000, 5000, 6000>>

\* this.fundamentalFreq as computed from the sun elevation, deciHz
FundamentalFreq(elev) ==
  LET elevationNorm == Max(-20, Min(70, elev))
  IN  48000 - ((elevationNorm + 20) * 46000) \div 90

\* randomDrift for Math.random() = rnd / 1000, deciHz
RandomDrift(e, rnd) ==
  LET tempDrift == (e.temperature - 20) * 5
  IN  DivT((rnd - 500) * Abs(tempDrift), 1000)

\* TargetB as it would be if the table were chosen by the drifted fundamental
TargetBDriftedChoice(e, rnd, i) ==
  LET fundamental == FundamentalFreq(calculateSunElevation(e))
      fund == fundamental + RandomDrift(e, rnd)
      useSubharmonics == fund > 20000
      intervals == IF useSubharmonics THEN SubharmonicIntervals
                   ELSE HarmonicIntervals
  IN  IF i = 0 THEN fund
      ELSE (((fund * getCompassInterval(e)) \div 1000) * intervals[i]) \div 1000

\* the unclamped frequency updateFrequencies passes for oscillator i, deciHz
TargetB(e, rnd, i) ==
  LET fundamental == FundamentalFreq(calculateSunElevation(e))
      useSubharmonics == fundamental > 20000
      fund == fundamental + RandomDrift(e, rnd)
      intervals == IF useSubharmonics THEN SubharmonicIntervals
                   ELSE HarmonicIntervals
  IN  IF i = 0 THEN fund
      ELSE (((fund * getCompassInterval(e)) \div 1000) * intervals[i]) \div 1000

\* the clamp of setOscillatorFrequency
ClampFrequency(f) == Max(MinFrequency, Min(MaxFrequency, f))

\* vibratoDepth, thousandths of a hertz
VibratoDepth(e) ==
  LET speedNorm == Min((e.speed * 1000) \div 30, 1000)
  IN  5500 - speedNorm * 5

\* lowPassFreq and highPassFreq, deciHz
LowPassFreq(e) == 5000 + ((e.latitude + 90) * 45000) \div 180
HighPassFreq(e) == 500 + ((e.longitude + 180) * 4500) \div 360

\* dryGain.gain.value and wetGain.gain.value, thousandths
DryGainValue(e) == 900 - e.humidity * 5
WetGainValue(e) == 100 + e.humidity * 6

\* ------------------------------------------- variant A: the mapping function
\* CurrentFrequenciesA as it would be if combo1 averaged latitude and
\* longitude
CurrentFrequenciesAWrongCombo(e) ==
  LET latNorm   == ((e.latitude + 90) * 1000) \div 180
      lonNorm   == ((e.longitude + 180) * 1000) \div 360
      speedNorm == Min((e.speed * 1000) \div 30, 1000)
      tempNorm  == ((e.temperature + 20) * 1000) \div 60
      combo1    == (latNorm + lonNorm) \div 2
      combo2    == (lonNorm + tempNorm) \div 2
      comboAll  == (latNorm + lonNorm + speedNorm + tempNorm + e.timeOfDay)
                     \div 5
      factor    == <<900 + (latNorm * 2) \div 10,
                     900 + (lonNorm * 2) \div 10,
                     800 + (speedNorm * 4) \div 10,
                     850 + (tempNorm * 3) \div 10,
                     850 + (e.timeOfDay * 3) \div 10,
                     750 + (combo1 * 5) \div 10,
                     750 + (combo2 * 5) \div 10,
                     700 + (comboAll * 6) \div 10>>
  IN  [i \in 1 .. NumOscillators |->
         (baseFrequencies[i] * factor[i]) \div 1000]

\* this.currentFrequencies as updateFrequencies computes it, deciHz
CurrentFrequenciesA(e) ==
  LET latNorm   == ((e.latitude + 90) * 1000) \div 180
      lonNorm   == ((e.longitude + 180) * 1000) \div 360
      speedNorm == Min((e.speed * 1000) \div 30, 1000)
      tempNorm  == ((e.temperature + 20) * 1000) \div 60
      combo1    == (latNorm + speedNorm) \div 2
      combo2    == (lonNorm + tempNorm) \div 2
      comboAll  == (latNorm + lonNorm + speedNorm + tempNorm + e.timeOfDay)
                     \div 5
      factor    == <<900 + (latNorm * 2) \div 10,
                     900 + (lonNorm * 2) \div 10,
                     800 + (speedNorm * 4) \div 10,
                     850 + (tempNorm * 3) \div 10,
                     850 + (e.timeOfDay * 3) \div 10,
                     750 + (combo1 * 5) \div 10,
                     750 + (combo2 * 5) \div 10,
                     700 + (comboAll * 6) \div 10>>
  IN  [i \in 1 .. NumOscillators |->
         (baseFrequencies[i] * factor[i]) \div 1000]

\* the clamp of variant A's updateFrequencies: Math.max(20, f)
ClampFrequencyA(f) == IF f = NaN THEN NaN ELSE Max(MinFrequency, f)

\* -------------------------------------------------------------------- state
VARIABLES
  variant,            \* which engine file is running: "A" or "B"
  audioContext,       \* this.audioContext: 0 (null) or a context id
  contexts,           \* backend: state of every AudioContext constructed
  oscillators,        \* this.oscillators: <<[ctx, freq]>>
  gainNodes,          \* this.gainNodes: <<[ctx, gain]>>
  vibratoLFOs,        \* this.vibratoLFOs: <<[ctx, depth]>> (variant B)
  convolver,          \* this.convolver: 0 or the context it was built in
  masterGain,         \* this.masterGain: 0 or the context it was built in
  dryGain,            \* this.dryGain: [ctx, value], ctx 0 is null
  wetGain,            \* this.wetGain
  lowPassFilter,      \* this.lowPassFilter
  highPassFilter,     \* this.highPassFilter
  isRunning,          \* this.isRunning
  fundamentalFreq,    \* this.fundamentalFreq (variant B)
  sunElevation,       \* this.sunElevation (variant B)
  currentFrequencies, \* this.currentFrequencies (variant A)
  env,                \* this.latitude .. this.timeOfDay
  onFrequencyUpdate,  \* this.onFrequencyUpdate: 0 (null) or an observer id
  sporadicTimers,     \* this.sporadicTimers / this.intermittentTimers:
                      \*   the handles pushed, <<[ch, armed, run]>>
  sustainTimers,      \* the inner setTimeout handles, kept nowhere: a bag
  retryTimers,        \* pending 100 ms resume-retry callbacks
  pendingStarts,      \* contexts whose resume() a start() is awaiting
  op,                 \* history: the operation of the last step
  emitted,            \* history: the backend/observer requests of that step
  run,                \* history: number of stop() calls that tore a run down
  lastSet,            \* history: the last snapshot setEnvironmentalData stored
  starts,             \* history: start() calls so far
  fires,              \* history: scheduler callbacks fired so far
  faults              \* history: backend operations that raised so far

graphVars == <<oscillators, gainNodes, vibratoLFOs, convolver, masterGain,
               dryGain, wetGain, lowPassFilter, highPassFilter,
               fundamentalFreq, sunElevation, currentFrequencies>>
timerVars == <<sporadicTimers, sustainTimers, retryTimers>>
engineVars == <<audioContext, graphVars, isRunning, env, onFrequencyUpdate,
                timerVars>>
vars == <<variant, engineVars, contexts, pendingStarts, op, emitted, run,
          lastSet, starts, fires, faults>>

NullNode == [ctx |-> 0, value |-> 0]
NoCh == -1

Op(name, result, ch, r) == [name |-> name, result |-> result, ch |-> ch, run |-> r]

\* the graph fields updateFrequencies reads and writes, as one record
Graph ==
  [oscillators |-> oscillators, vibratoLFOs |-> vibratoLFOs,
   lowPassFilter |-> lowPassFilter, highPassFilter |-> highPassFilter,
   dryGain |-> dryGain, wetGain |-> wetGain,
   fundamentalFreq |-> fundamentalFreq, sunElevation |-> sunElevation,
   currentFrequencies |-> currentFrequencies]

\* ------------------------------------------------------------------- inputs
OtherEnv ==
  [latitude |-> 45, longitude |-> 90, speed |-> 15, temperature |-> 30,
   humidity |-> 80, heading |-> 270, timeOfDay |-> 350]
Snapshots == {DefaultEnv, OtherEnv}
RandValues == {0, 999}
Observers == {0, 1, 2}
NoFail == [at |-> "none", i |-> 0]
\* the backend operation of start() that raises: createConvolver, or
\* createOscillator in loop iteration i
FailChoices ==
  {NoFail, [at |-> "reverb", i |-> 0], [at |-> "oscillator", i |-> 6]}
\* the channels whose timers fire in the behaviours explored (the timers of
\* every sporadic channel are armed; the channels of a variant differ in
\* nothing the scheduler reads)
FiringChannels == {5, 7}
\* Math.random() in the draws of a pulse: the ends of its range
PulseRandValues == {0, 999}

\* constructor()
Init ==
  /\ variant \in Variants
  /\ audioContext = 0
  /\ contexts = <<>>
  /\ oscillators = <<>>
  /\ gainNodes = <<>>
  /\ vibratoLFOs = <<>>
  /\ convolver = 0
  /\ masterGain = 0
  /\ dryGain = NullNode
  /\ wetGain = NullNode
  /\ lowPassFilter = NullNode
  /\ highPassFilter = NullNode
  /\ isRunning = FALSE
  /\ fundamentalFreq = IF variant = "B" THEN 2000 ELSE 0
  /\ sunElevation = 0
  /\ currentFrequencies = IF variant = "A" THEN baseFrequencies ELSE <<>>
  /\ env = DefaultEnv
  /\ onFrequencyUpdate = 0
  /\ sporadicTimers = <<>>
  /\ sustainTimers = EmptyBag
  /\ retryTimers = 0
  /\ pendingStarts = {}
  /\ op = Op("constructor", "done", NoCh, 0)
  /\ emitted = <<>>
  /\ run = 0
  /\ lastSet = DefaultEnv
  /\ starts = 0
  /\ fires = 0
  /\ faults = 0

\* -------------------------------------------------------- updateFrequencies
\* setOscillatorFrequency(index, frequency) on the list oscs (variant B)
setOscillatorFrequency(oscs, index, frequency) ==
  IF index + 1 > Len(oscs) THEN oscs
  ELSE [oscs EXCEPT ![index + 1].freq = ClampFrequency(frequency)]

\* variant B: the result of updateFrequencies() on graph g while running
UpdateFrequenciesB(g, e, rnd, obs) ==
  LET elev == calculateSunElevation(e)
      n == Min(Len(g.oscillators), NumOscillators)
      oscs == [k \in 1 .. Len(g.oscillators) |->
                 IF k <= NumOscillators
                 THEN setOscillatorFrequency(g.oscillators, k - 1,
                                             TargetB(e, rnd, k - 1))[k]
                 ELSE g.oscillators[k]]
      ramps == [k \in 1 .. n |-> <<"freqRamp", k - 1, oscs[k].freq>>]
      notify == IF obs = 0 THEN <<>>
                ELSE << <<"notify", obs, Len(g.oscillators)>> >>
  IN  [g |-> [g EXCEPT
                !.sunElevation = elev,
                !.fundamentalFreq = FundamentalFreq(elev),
                !.oscillators = oscs,
                !.vibratoLFOs = [k \in 1 .. Len(g.vibratoLFOs) |->
                                   [g.vibratoLFOs[k] EXCEPT
                                      !.depth = VibratoDepth(e)]],
                !.lowPassFilter.value = LowPassFreq(e),
                !.highPassFilter.value = HighPassFreq(e),
                !.dryGain.value = DryGainValue(e),
                !.wetGain.value = WetGainValue(e)],
       out |-> ramps \o notify,
       threw |-> FALSE]

\* variant A: the result of updateFrequencies() on graph g while running.
\* The forEach walks this.oscillators; past index 7 this.currentFrequencies[i]
\* is undefined, Math.max(20, undefined) is NaN and the ramp call raises.
UpdateFrequenciesA(g, e, obs) ==
  LET cf == CurrentFrequenciesA(e)
      len == Len(g.oscillators)
      n == Min(len, NumOscillators)
      overrun == len > NumOscillators
      ramps == [k \in 1 .. n |-> <<"freqRamp", k - 1, ClampFrequencyA(cf[k])>>]
      bad == IF overrun
             THEN << <<"freqRamp", NumOscillators, ClampFrequencyA(NaN)>> >>
             ELSE <<>>
      notify == IF obs = 0 \/ overrun THEN <<>>
                ELSE << <<"notify", obs, Len(cf)>> >>
  IN  [g |-> [g EXCEPT
                !.currentFrequencies = cf,
                !.oscillators = [k \in 1 .. len |->
                                   IF k <= NumOscillators
                                   THEN [g.oscillators[k] EXCEPT
                                           !.freq = ClampFrequencyA(cf[k])]
                                   ELSE g.oscillators[k]]],
       out |-> ramps \o bad \o notify,
       threw |-> overrun]

\* updateFrequencies as it would be without the isRunning test
updateFrequenciesUnguarded(v, running, g, e, rnd, obs) ==
  IF v = "B" THEN UpdateFrequenciesB(g, e, rnd, obs)
  ELSE UpdateFrequenciesA(g, e, obs)

\* updateFrequencies(): nothing unless running
updateFrequencies(v, running, g, e, rnd, obs) ==
  IF ~running THEN [g |-> g, out |-> <<>>, threw |-> FALSE]
  ELSE IF v = "B" THEN UpdateFrequenciesB(g, e, rnd, obs)
  ELSE UpdateFrequenciesA(g, e, obs)

\* assign the graph fields updateFrequencies can write
ApplyGraph(g) ==
  /\ oscillators' = g.oscillators
  /\ vibratoLFOs' = g.vibratoLFOs
  /\ lowPassFilter' = g.lowPassFilter
  /\ highPassFilter' = g.highPassFilter
  /\ dryGain' = g.dryGain
  /\ wetGain' = g.wetGain
  /\ fundamentalFreq' = g.fundamentalFreq
  /\ sunElevation' = g.sunElevation
  /\ currentFrequencies' = g.currentFrequencies

\* --------------------------------------------------- setEnvironmentalData
\* the fields the call stores: variant A has no humidity and no heading
Stored(s) ==
  IF variant = "B" THEN s
  ELSE [s EXCEPT !.humidity = env.humidity, !.heading = env.heading]

\* setEnvironmentalData as it would be if it stored the snapshot only while
\* running
setEnvironmentalDataWhileRunning(s, rnd) ==
  LET kept == IF isRunning THEN Stored(s) ELSE env
      r == updateFrequencies(variant, isRunning, Graph, kept, rnd,
                             onFrequencyUpdate)
  IN  /\ env' = kept
      /\ lastSet' = Stored(s)
      /\ ApplyGraph(r.g)
      /\ emitted' = r.out
      /\ op' = Op("setEnvironmentalData",
                  IF r.threw THEN "threw"
                  ELSE IF isRunning THEN "done" ELSE "stored", NoCh, run)
      /\ UNCHANGED <<variant, audioContext, gainNodes, convolver, masterGain,
                     isRunning, onFrequencyUpdate, timerVars, contexts,
                     pendingStarts, run, starts, fires, faults>>

setEnvironmentalData(s, rnd) ==
  LET r == updateFrequencies(variant, isRunning, Graph, Stored(s), rnd,
                             onFrequencyUpdate)
  IN  /\ env' = Stored(s)
      /\ lastSet' = Stored(s)
      /\ ApplyGraph(r.g)
      /\ emitted' = r.out
      /\ op' = Op("setEnvironmentalData",
                  IF r.threw THEN "threw"
                  ELSE IF isRunning THEN "done" ELSE "stored", NoCh, run)
      /\ UNCHANGED <<variant, audioContext, gainNodes, convolver, masterGain,
                     isRunning, onFrequencyUpdate, timerVars, contexts,
                     pendingStarts, run, starts, fires, faults>>

\* the collaborator assigns engine.onFrequencyUpdate
setObserver(o) ==
  /\ o # onFrequencyUpdate
  /\ onFrequencyUpdate' = o
  /\ op' = Op("setObserver", "done", NoCh, run)
  /\ emitted' = <<>>
  /\ UNCHANGED <<variant, audioContext, graphVars, isRunning, env, timerVars,
                 contexts, pendingStarts, run, lastSet, starts, fires, faults>>

\* ------------------------------------------------------------------ start()
\* the order in which start() arms the first pulse of each sporadic channel
SporadicOrder(v) == IF v = "A" THEN <<5, 7>> ELSE <<0, 1, 2, 3, 4, 5, 6, 7>>

\* the body of start() that follows the resume: the retry timer, the graph,
\* the 8 oscillators, isRunning, updateFrequencies and the sporadic timers.
\* ctx is this.audioContext when the body runs; fail is the backend operation
\* that raises, if any; pre is what the step already requested of the backend.
StartBody(ctx, fail, rnd, pre, name) ==
  LET crash == ctx = 0
      built == ~crash /\ fail.at # "reverb"
      k == IF fail.at = "oscillator" THEN fail.i ELSE NumOscillators
      completed == built /\ k = NumOscillators
      newOsc(i) == [ctx |-> ctx,
                    freq |-> IF variant = "B" THEN InitialFrequency
                             ELSE baseFrequencies[i + 1]]
      newGain(i) == [ctx |-> ctx,
                     gain |-> IF variant = "B" \/ i \in intermittentOscillators
                              THEN 0 ELSE oscillatorVolumes[i + 1]]
      oscs1 == oscillators \o [i \in 1 .. k |-> newOsc(i - 1)]
      gains1 == gainNodes \o [i \in 1 .. k |-> newGain(i - 1)]
      lfos1 == IF variant = "B"
               THEN vibratoLFOs \o [i \in 1 .. k |-> [ctx |-> ctx, depth |-> 0]]
               ELSE vibratoLFOs
      node(val) == IF variant = "B" THEN [ctx |-> ctx, value |-> val]
                   ELSE NullNode
      g1 == [Graph EXCEPT !.oscillators = oscs1, !.vibratoLFOs = lfos1,
                          !.dryGain = node(700), !.wetGain = node(300),
                          !.lowPassFilter = node(50000),
                          !.highPassFilter = node(1000)]
      r == updateFrequencies(variant, TRUE, g1, env, rnd, onFrequencyUpdate)
      order == SporadicOrder(variant)
      newTimers == [j \in 1 .. Len(order) |->
                      [ch |-> order[j], armed |-> TRUE, run |-> run]]
      arms == [j \in 1 .. Len(order) |-> <<"arm", order[j], run>>]
  IN  /\ retryTimers' = retryTimers + 1
      /\ faults' = IF fail = NoFail THEN faults ELSE faults + 1
      /\ IF ~built
         THEN /\ UNCHANGED <<graphVars, isRunning, sporadicTimers>>
              /\ emitted' = pre
              /\ op' = Op(name, "threw", NoCh, run)
         ELSE IF ~completed
         THEN /\ convolver' = ctx
              /\ masterGain' = ctx
              /\ ApplyGraph(g1)
              /\ gainNodes' = gains1
              /\ UNCHANGED <<isRunning, sporadicTimers>>
              /\ emitted' = pre
              /\ op' = Op(name, "threw", NoCh, run)
         ELSE /\ convolver' = ctx
              /\ masterGain' = ctx
              /\ ApplyGraph(r.g)
              /\ gainNodes' = gains1
              /\ isRunning' = TRUE
              /\ sporadicTimers' = IF r.threw THEN sporadicTimers
                                   ELSE sporadicTimers \o newTimers
              /\ emitted' = IF r.threw THEN pre \o r.out
                            ELSE pre \o r.out \o arms
              /\ op' = Op(name, IF r.threw THEN "threw" ELSE "done", NoCh, run)
      /\ UNCHANGED <<variant, sustainTimers, env, lastSet, onFrequencyUpdate,
                     run, fires>>

\* start(), up to its await or, when the new context is not suspended, to
\* its end
start ==
  /\ starts < MaxStarts
  /\ starts' = starts + 1
  /\ IF isRunning
     THEN /\ op' = Op("start", "noop", NoCh, run)
          /\ emitted' = <<>>
          /\ UNCHANGED <<variant, engineVars, contexts, pendingStarts, run,
                         lastSet, fires, faults>>
     ELSE \/ \* new AudioContext() raises: no backend
             /\ faults < MaxFaults
             /\ faults' = faults + 1
             /\ op' = Op("start", "unavailable", NoCh, run)
             /\ emitted' = <<>>
             /\ UNCHANGED <<variant, engineVars, contexts, pendingStarts, run,
                            lastSet, fires>>
          \/ \* the new context is suspended: resume() is awaited
             /\ LET c == Len(contexts) + 1
                IN  /\ contexts' = Append(contexts, "suspended")
                    /\ audioContext' = c
                    /\ pendingStarts' = pendingStarts \cup {c}
                    /\ emitted' = << <<"resume", c, 0>> >>
                    /\ op' = Op("start", "await", NoCh, run)
             /\ UNCHANGED <<variant, graphVars, isRunning, env,
                            onFrequencyUpdate, timerVars, run, lastSet, fires,
                            faults>>
          \/ \* the new context is running: start() runs to its end
             \E fail \in FailChoices, rnd \in RandValues :
               /\ fail # NoFail => faults < MaxFaults
               /\ LET c == Len(contexts) + 1
                  IN  /\ contexts' = Append(contexts, "running")
                      /\ audioContext' = c
                      /\ StartBody(c, fail, rnd, <<>>, "start")
               /\ UNCHANGED pendingStarts

\* the continuation of a start() whose resume() has settled
startResume ==
  \E c \in pendingStarts :
    /\ pendingStarts' = pendingStarts \ {c}
    /\ UNCHANGED <<audioContext, starts>>
    /\ \/ \* resume() is rejected: the context was closed, or the backend
          \* refuses; start() ends with the rejection
          /\ contexts[c] = "closed" \/ faults < MaxFaults
          /\ faults' = IF contexts[c] = "closed" THEN faults ELSE faults + 1
          /\ op' = Op("startResume", "rejected", NoCh, run)
          /\ emitted' = <<>>
          /\ UNCHANGED <<variant, graphVars, isRunning, env, onFrequencyUpdate,
                         timerVars, contexts, run, lastSet, fires>>
       \/ \* resume() is fulfilled and the body follows; the context runs,
          \* or is still suspended (the case the 100 ms retry is there for)
          /\ contexts[c] # "closed"
          /\ \E s \in {"running", "suspended"} :
               contexts' = [contexts EXCEPT ![c] = s]
          /\ \E fail \in FailChoices, rnd \in RandValues :
               /\ fail # NoFail => (faults < MaxFaults /\ audioContext # 0)
               /\ StartBody(audioContext, fail, rnd, <<>>, "startResume")

\* the retry callback as it would be if it did not test the context's state
retryResumeUntested ==
  /\ retryTimers > 0
  /\ retryTimers' = retryTimers - 1
  /\ IF audioContext # 0
     THEN /\ emitted' = << <<"resume", audioContext, 0>> >>
          /\ op' = Op("retryResume", "resumed", NoCh, run)
          /\ \E s \in {contexts[audioContext], "running"} :
               contexts' = [contexts EXCEPT ![audioContext] = s]
     ELSE /\ emitted' = <<>>
          /\ op' = Op("retryResume", "noop", NoCh, run)
          /\ UNCHANGED contexts
  /\ UNCHANGED <<variant, audioContext, graphVars, isRunning, env,
                 onFrequencyUpdate, sporadicTimers, sustainTimers,
                 pendingStarts, run, lastSet, starts, fires, faults>>

\* the callback of the 100 ms timer armed by start()
retryResume ==
  /\ retryTimers > 0
  /\ retryTimers' = retryTimers - 1
  /\ IF audioContext # 0 /\ contexts[audioContext] = "suspended"
     THEN /\ emitted' = << <<"resume", audioContext, 0>> >>
          /\ op' = Op("retryResume", "resumed", NoCh, run)
          /\ \E s \in {"suspended", "running"} :
               contexts' = [contexts EXCEPT ![audioContext] = s]
     ELSE /\ emitted' = <<>>
          /\ op' = Op("retryResume", "noop", NoCh, run)
          /\ UNCHANGED contexts
  /\ UNCHANGED <<variant, audioContext, graphVars, isRunning, env,
                 onFrequencyUpdate, sporadicTimers, sustainTimers,
                 pendingStarts, run, lastSet, starts, fires, faults>>

\* ------------------------------------------------------------------- stop()
\* stop() as it would be without the isRunning test
stopUnguarded ==
  /\ sporadicTimers' = <<>>
  /\ vibratoLFOs' = <<>>
  /\ contexts' = IF audioContext # 0
                 THEN [contexts EXCEPT ![audioContext] = "closed"]
                 ELSE contexts
  /\ emitted' = IF audioContext # 0
                THEN << <<"close", audioContext, 0>> >> ELSE <<>>
  /\ oscillators' = <<>>
  /\ gainNodes' = <<>>
  /\ convolver' = 0
  /\ masterGain' = 0
  /\ dryGain' = NullNode
  /\ wetGain' = NullNode
  /\ lowPassFilter' = NullNode
  /\ highPassFilter' = NullNode
  /\ audioContext' = 0
  /\ isRunning' = FALSE
  /\ run' = run + 1
  /\ op' = Op("stop", "done", NoCh, run)
  /\ UNCHANGED <<variant, fundamentalFreq, sunElevation, currentFrequencies,
                 env, onFrequencyUpdate, sustainTimers, retryTimers,
                 pendingStarts, lastSet, starts, fires, faults>>

\* alreadyStopped: an osc.stop() / lfo.stop() raises and the catch swallows it
stop ==
  IF ~isRunning
  THEN /\ op' = Op("stop", "noop", NoCh, run)
       /\ emitted' = <<>>
       /\ UNCHANGED <<variant, engineVars, contexts, pendingStarts, run,
                      lastSet, starts, fires, faults>>
  ELSE \E alreadyStopped \in BOOLEAN :
       /\ sporadicTimers' = <<>>
       /\ vibratoLFOs' = <<>>
       /\ contexts' = IF audioContext # 0
                      THEN [contexts EXCEPT ![audioContext] = "closed"]
                      ELSE contexts
       /\ emitted' = (IF alreadyStopped THEN << <<"caught", 0, 0>> >> ELSE <<>>)
                     \o (IF audioContext # 0
                         THEN << <<"close", audioContext, 0>> >> ELSE <<>>)
       /\ oscillators' = <<>>
       /\ gainNodes' = <<>>
       /\ convolver' = 0
       /\ masterGain' = 0
       /\ dryGain' = NullNode
       /\ wetGain' = NullNode
       /\ lowPassFilter' = NullNode
       /\ highPassFilter' = NullNode
       /\ audioContext' = 0
       /\ isRunning' = FALSE
       /\ run' = run + 1
       /\ op' = Op("stop", "done", NoCh, run)
       /\ UNCHANGED <<variant, fundamentalFreq, sunElevation,
                      currentFrequencies, env, onFrequencyUpdate,
                      sustainTimers, retryTimers, pendingStarts, lastSet,
                      starts, fires, faults>>

\* ------------------------------------------------------- fadeIn / fadeOut
\* fadeIn as it would be if it addressed the gain node after the channel's
fadeInNextNode(gains, running, oscIndex, targetVolume) ==
  IF ~running \/ oscIndex + 2 > Len(gains)
  THEN [gains |-> gains, out |-> <<>>]
  ELSE [gains |-> [gains EXCEPT ![oscIndex + 2].gain = targetVolume],
        out |-> << <<"fadeIn", oscIndex, gains[oscIndex + 2].ctx>> >>]

\* fadeIn(oscIndex, duration, targetVolume): the gain list and the request
fadeIn(gains, running, oscIndex, targetVolume) ==
  IF ~running \/ oscIndex + 1 > Len(gains)
  THEN [gains |-> gains, out |-> <<>>]
  ELSE [gains |-> [gains EXCEPT ![oscIndex + 1].gain = targetVolume],
        out |-> << <<"fadeIn", oscIndex, gains[oscIndex + 1].ctx>> >>]

\* fadeOut as it would be without the isRunning test
fadeOutUnguarded(gains, running, oscIndex) ==
  IF oscIndex + 1 > Len(gains)
  THEN [gains |-> gains, out |-> <<>>]
  ELSE [gains |-> [gains EXCEPT ![oscIndex + 1].gain = 0],
        out |-> << <<"fadeOut", oscIndex, gains[oscIndex + 1].ctx>> >>]

\* fadeOut(oscIndex, duration)
fadeOut(gains, running, oscIndex) ==
  IF ~running \/ oscIndex + 1 > Len(gains)
  THEN [gains |-> gains, out |-> <<>>]
  ELSE [gains |-> [gains EXCEPT ![oscIndex + 1].gain = 0],
        out |-> << <<"fadeOut", oscIndex, gains[oscIndex + 1].ctx>> >>]

\* the volume a channel is faded in to
TargetVolume(v, ch) == IF v = "B" THEN SporadicVolume ELSE oscillatorVolumes[ch + 1]

\* ------------------------------------------------- the draws of a pulse
\* the values scheduleSporadicPulse / startA6Timer / startA8Timer draw for
\* Math.random() = rnd / 1000, in milliseconds
PulseInterval(v, ch, rnd) ==
  IF v = "B" THEN 3000 + (rnd * 13000) \div 1000
  ELSE IF ch = 5 THEN 8000 + (rnd * 7000) \div 1000
  ELSE 10000 + (rnd * 10000) \div 1000

\* the on-duration as it would be if its lower end were a tenth of what it
\* is
PulseDurationShort(v, ch, rnd) ==
  IF v = "B" THEN 100 + (rnd * 5000) \div 1000
  ELSE IF ch = 5 THEN 200 + (rnd * 4000) \div 1000
  ELSE 100 + (rnd * 3000) \div 1000

PulseDuration(v, ch, rnd) ==
  IF v = "B" THEN 1000 + (rnd * 5000) \div 1000
  ELSE IF ch = 5 THEN 2000 + (rnd * 4000) \div 1000
  ELSE 1000 + (rnd * 3000) \div 1000

\* the lengths of the gain ramps handed to fadeIn and fadeOut
FadeInLength(v, ch, rnd) ==
  IF v = "B" THEN 200 + (rnd * 500) \div 1000
  ELSE IF ch = 5 THEN 500
  ELSE 300

FadeOutLength(v, ch, rnd) ==
  IF v = "B" THEN 300 + (rnd * 1000) \div 1000
  ELSE IF ch = 5 THEN 1000
  ELSE 800

\* what a callback adds to the requests of its step when the timer it arms
\* is not longer than the gain ramp it requested, so that the timer's
\* callback, which requests the channel's next ramp, can run before this
\* ramp has ended: the time by which the ramp is cut short
PulseEvents(ramped, ch, length, delay) ==
  IF ramped /\ delay <= length
  THEN << <<"cutShort", ch, length - delay>> >>
  ELSE <<>>

\* ------------------------------------------------------ the pulse timers
\* the idle-interval callback as it would be if it armed the next idle timer
\* itself, besides the sustain timer
fireIdleRearming(k) ==
  LET t == sporadicTimers[k]
      skipped == variant = "B" /\ ~isRunning
      r == fadeIn(gainNodes, isRunning, t.ch, TargetVolume(variant, t.ch))
  IN  /\ fires < MaxFires
      /\ t.armed
      /\ t.ch \in FiringChannels
      /\ fires' = fires + 1
      /\ IF skipped
         THEN /\ sporadicTimers' = [sporadicTimers EXCEPT ![k].armed = FALSE]
              /\ UNCHANGED <<gainNodes, sustainTimers>>
              /\ emitted' = <<>>
              /\ op' = Op("fireIdle", "skipped", t.ch, t.run)
         ELSE /\ sporadicTimers' =
                   Append([sporadicTimers EXCEPT ![k].armed = FALSE],
                          [ch |-> t.ch, armed |-> TRUE, run |-> t.run])
              /\ gainNodes' = r.gains
              /\ sustainTimers' =
                   sustainTimers (+) SetToBag({[ch |-> t.ch, run |-> t.run]})
              /\ \E rndFade \in PulseRandValues, rndOn \in PulseRandValues :
                   emitted' =
                     r.out \o << <<"arm", t.ch, t.run>> >>
                       \o PulseEvents(r.out # <<>>, t.ch,
                                      FadeInLength(variant, t.ch, rndFade),
                                      PulseDuration(variant, t.ch, rndOn))
              /\ op' = Op("fireIdle", "done", t.ch, t.run)
      /\ UNCHANGED <<variant, audioContext, oscillators, vibratoLFOs,
                     convolver, masterGain, dryGain, wetGain, lowPassFilter,
                     highPassFilter, fundamentalFreq, sunElevation,
                     currentFrequencies, isRunning, env, onFrequencyUpdate,
                     retryTimers, contexts, pendingStarts, run, lastSet,
                     starts, faults>>

\* the idle-interval timer at position k of the handle list fires
fireIdle(k) ==
  LET t == sporadicTimers[k]
      \* variant B leaves the callback at once when not running
      skipped == variant = "B" /\ ~isRunning
      r == fadeIn(gainNodes, isRunning, t.ch, TargetVolume(variant, t.ch))
  IN  /\ fires < MaxFires
      /\ t.armed
      /\ t.ch \in FiringChannels
      /\ fires' = fires + 1
      /\ sporadicTimers' = [sporadicTimers EXCEPT ![k].armed = FALSE]
      /\ IF skipped
         THEN /\ UNCHANGED <<gainNodes, sustainTimers>>
              /\ emitted' = <<>>
              /\ op' = Op("fireIdle", "skipped", t.ch, t.run)
         ELSE /\ gainNodes' = r.gains
              /\ sustainTimers' =
                   sustainTimers (+) SetToBag({[ch |-> t.ch, run |-> t.run]})
              /\ \E rndFade \in PulseRandValues, rndOn \in PulseRandValues :
                   emitted' =
                     r.out \o << <<"arm", t.ch, t.run>> >>
                       \o PulseEvents(r.out # <<>>, t.ch,
                                      FadeInLength(variant, t.ch, rndFade),
                                      PulseDuration(variant, t.ch, rndOn))
              /\ op' = Op("fireIdle", "done", t.ch, t.run)
      /\ UNCHANGED <<variant, audioContext, oscillators, vibratoLFOs,
                     convolver, masterGain, dryGain, wetGain, lowPassFilter,
                     highPassFilter, fundamentalFreq, sunElevation,
                     currentFrequencies, isRunning, env, onFrequencyUpdate,
                     retryTimers, contexts, pendingStarts, run, lastSet,
                     starts, faults>>

\* a sustain (on-duration) timer fires: fade out and arm the next pulse
fireSustain(t) ==
  LET skipped == variant = "B" /\ ~isRunning
      r == fadeOut(gainNodes, isRunning, t.ch)
  IN  /\ fires < MaxFires
      /\ BagIn(t, sustainTimers)
      /\ fires' = fires + 1
      /\ sustainTimers' = sustainTimers (-) SetToBag({t})
      /\ IF skipped
         THEN /\ UNCHANGED <<gainNodes, sporadicTimers>>
              /\ emitted' = <<>>
              /\ op' = Op("fireSustain", "skipped", t.ch, t.run)
         ELSE /\ gainNodes' = r.gains
              /\ sporadicTimers' =
                   Append(sporadicTimers,
                          [ch |-> t.ch, armed |-> TRUE, run |-> t.run])
              /\ \E rndFade \in PulseRandValues, rndIdle \in PulseRandValues :
                   emitted' =
                     r.out \o << <<"arm", t.ch, t.run>> >>
                       \o PulseEvents(r.out # <<>>, t.ch,
                                      FadeOutLength(variant, t.ch, rndFade),
                                      PulseInterval(variant, t.ch, rndIdle))
              /\ op' = Op("fireSustain", "done", t.ch, t.run)
      /\ UNCHANGED <<variant, audioContext, oscillators, vibratoLFOs,
                     convolver, masterGain, dryGain, wetGain, lowPassFilter,
                     highPassFilter, fundamentalFreq, sunElevation,
                     currentFrequencies, isRunning, env, onFrequencyUpdate,
                     retryTimers, contexts, pendingStarts, run, lastSet,
                     starts, faults>>

\* ----------------------------------------------------------- specifications
\* the lifecycle and the pulse timers
Next ==
  \/ start
  \/ startResume
  \/ retryResume
  \/ stop
  \/ \E k \in 1 .. Len(sporadicTimers) : fireIdle(k)
  \/ \E t \in BagToSet(sustainTimers) : fireSustain(t)

Spec == Init /\ [][Next]_vars

\* the lifecycle, the snapshot and the observer (the resume retry, which
\* reads and writes nothing but the backend's state, is explored in Spec)
NextData ==
  \/ start
  \/ startResume
  \/ stop
  \/ \E s \in Snapshots, rnd \in RandValues : setEnvironmentalData(s, rnd)
  \/ \E o \in Observers : setObserver(o)

SpecData == Init /\ [][NextData]_vars

\* the snapshots of the mapping sweeps. Variant B: the default snapshot with
\* one field swept at a time: a humidity in and out of [0, 100], a heading at
\* and next to the quadrant boundaries, and a morning time of day, with and
\* without temperature drift, where the fundamental is next to 2000 Hz.
\* Variant A: the corners of the ranges of the five fields its factors are
\* taken from.
Humidities == {-20, 0, 50, 100, 200}
Headings == {0, 1, 45, 89, 90, 91, 179, 180, 181, 269, 270, 271, 359, 360}
Temperatures == {20, 100}
MorningTime == 348
SweepB ==
  {[DefaultEnv EXCEPT !.humidity = h] : h \in Humidities}
    \cup {[DefaultEnv EXCEPT !.heading = d] : d \in Headings}
    \cup {[DefaultEnv EXCEPT !.timeOfDay = MorningTime, !.temperature = c] :
            c \in Temperatures}
GridA ==
  {[DefaultEnv EXCEPT !.latitude = la, !.longitude = lo, !.speed = sp,
                      !.temperature = c, !.timeOfDay = t] :
     la \in {-90, 90}, lo \in {-180, 180}, sp \in {0, 30},
     c \in {-20, 40}, t \in {0, 1000}}
MapSnapshots(v) == IF v = "B" THEN SweepB ELSE GridA
MapRandValues == {0, 999}

\* the mapping: an engine that is started and fed snapshots
NextMap ==
  \/ start
  \/ \E s \in MapSnapshots(variant), rnd \in MapRandValues :
       setEnvironmentalData(s, rnd)

SpecMap == Init /\ [][NextMap]_vars

\* the pulse timers together with the snapshot: the scheduler and the mapper
\* acting on one engine
NextMix ==
  \/ start
  \/ stop
  \/ \E k \in 1 .. Len(sporadicTimers) : fireIdle(k)
  \/ \E t \in BagToSet(sustainTimers) : fireSustain(t)
  \/ \E s \in Snapshots, rnd \in RandValues : setEnvironmentalData(s, rnd)

SpecMix == Init /\ [][NextMix]_vars

\* ------------------------------------------------------- derived quantities
Events(type) == {j \in 1 .. Len(emitted) : emitted[j][1] = type}
GainRamps == Events("fadeIn") \cup Events("fadeOut")
LiveContexts == {c \in 1 .. Len(contexts) : contexts[c] # "closed"}
ArmedIdle(ch) ==
  {k \in 1 .. Len(sporadicTimers) :
     sporadicTimers[k].armed /\ sporadicTimers[k].ch = ch}
ArmedSustain(ch) == {t \in BagToSet(sustainTimers) : t.ch = ch}
SustainCopies(ch) ==
  LET S == ArmedSustain(ch)
      RECURSIVE Sum(_)
      Sum(T) == IF T = {} THEN 0
                ELSE LET t == CHOOSE x \in T : TRUE
                     IN  CopiesIn(t, sustainTimers) + Sum(T \ {t})
  IN  Sum(S)
\* armed scheduler timers of channel ch: its pulse chains
Chains(ch) == Cardinality(ArmedIdle(ch)) + SustainCopies(ch)

\* =================================================================== claims

\* C1: once the start() calls of a behaviour without stop() and without
\* backend fault have all run to their end, the running engine is as after a
\* single call: one live audio backend, exactly 8 oscillators and 8 gain
\* nodes, and one pulse chain (one armed scheduler timer) per sporadic
\* channel.
C1_StartTwiceAsOnce ==
  (isRunning /\ run = 0 /\ faults = 0 /\ pendingStarts = {})
    => /\ Cardinality(LiveContexts) = 1
       /\ Len(oscillators) = NumOscillators
       /\ Len(gainNodes) = NumOscillators
       /\ \A ch \in SporadicChannels(variant) : Chains(ch) = 1

\* C2: in the state stop() leaves when it tears a running engine down, no
\* scheduler timer is armed: no idle-interval timer and no sustain timer of
\* any channel.
C2_NoTimerArmedAfterStop ==
  (op.name = "stop" /\ op.result = "done")
    => /\ \A ch \in Channels : ArmedIdle(ch) = {}
       /\ sustainTimers = EmptyBag

\* C3: once a stop() has torn a run down, a scheduler callback that fires
\* while the engine is not running schedules no fade-in and no fade-out and
\* leaves every gain node and every oscillator as it was.
C3_NoRampAfterStop ==
  [][(run > 0 /\ ~isRunning /\ op'.name \in {"fireIdle", "fireSustain"})
       => /\ \A j \in 1 .. Len(emitted') :
               emitted'[j][1] \notin {"fadeIn", "fadeOut"}
          /\ gainNodes' = gainNodes
          /\ oscillators' = oscillators]_vars

\* C3 witness: a sustain callback armed in the first run has fired after the
\* stop() of that run, with the engine not running.
C3_Witness ==
  /\ op.name = "fireSustain"
  /\ op.run < run
  /\ ~isRunning

\* C4: a scheduler callback armed during a run that stop() has ended does
\* nothing when it fires: it schedules no fade and arms no further timer.
C4_StaleCallbackInert ==
  (op.name \in {"fireIdle", "fireSustain"} /\ op.run < run)
    => /\ GainRamps = {}
       /\ Events("arm") = {}

\* C5: stop() on an engine that is not running changes no field of the
\* engine and nothing in the backend; stop() never raises; and the state a
\* stop() call leaves has isRunning false and, when it tore a run down,
\* audioContext null and empty oscillator, gain and timer lists, so a second
\* stop() leaves the state of the first.
C5_StopIdempotent ==
  /\ [](op.name = "stop"
          => /\ ~isRunning
             /\ op.result \in {"noop", "done"}
             /\ op.result = "done"
                  => /\ audioContext = 0
                     /\ oscillators = <<>>
                     /\ gainNodes = <<>>
                     /\ sporadicTimers = <<>>)
  /\ [][(op'.name = "stop" /\ ~isRunning)
          => /\ op'.result = "noop"
             /\ UNCHANGED <<engineVars, contexts, pendingStarts>>]_vars

\* C5 witness: a second stop() has returned after a stop() that tore a run
\* down, and the engine holds the state the first one left.
C5_Witness ==
  /\ op.name = "stop"
  /\ op.result = "noop"
  /\ run > 0
  /\ audioContext = 0
  /\ oscillators = <<>>

\* C9: after a backend operation has raised during start(), a stop() leaves
\* the engine in its pre-start state with every audio backend closed and no
\* oscillator left in the engine.
C9_StopRecoversFailedStart ==
  (op.name = "stop" /\ faults > 0 /\ pendingStarts = {})
    => /\ ~isRunning
       /\ audioContext = 0
       /\ oscillators = <<>>
       /\ gainNodes = <<>>
       /\ LiveContexts = {}

\* what updateFrequencies leaves in the engine when it computes from e
TargetsFrom(e) ==
  IF variant = "A"
  THEN /\ currentFrequencies = CurrentFrequenciesA(e)
       /\ \A k \in 1 .. NumOscillators :
            oscillators[k].freq = ClampFrequencyA(CurrentFrequenciesA(e)[k])
  ELSE /\ sunElevation = calculateSunElevation(e)
       /\ fundamentalFreq = FundamentalFreq(calculateSunElevation(e))
       /\ \E rnd \in RandValues : \A k \in 1 .. NumOscillators :
            oscillators[k].freq = ClampFrequency(TargetB(e, rnd, k - 1))
       /\ \A k \in 1 .. Len(vibratoLFOs) :
            vibratoLFOs[k].depth = VibratoDepth(e)
       /\ lowPassFilter.value = LowPassFreq(e)
       /\ highPassFilter.value = HighPassFreq(e)
       /\ dryGain.value = DryGainValue(e)
       /\ wetGain.value = WetGainValue(e)

StartCompleted == op.name \in {"start", "startResume"} /\ op.result = "done"

\* C6: a setEnvironmentalData() call made while the engine is not running
\* stores the snapshot it was given and changes nothing else: no oscillator,
\* filter, reverb or vibrato value, no timer, no backend state, and it asks
\* nothing of the backend or of the observer.
C6_SetWhileStoppedOnlyStores ==
  [][(op'.name = "setEnvironmentalData" /\ ~isRunning)
       => /\ env' = lastSet'
          /\ emitted' = <<>>
          /\ UNCHANGED <<audioContext, graphVars, isRunning,
                         onFrequencyUpdate, timerVars, contexts,
                         pendingStarts>>]_vars

\* C6 witness: a snapshot other than the default has been stored by a call
\* made while the engine was not running.
C6_Witness ==
  /\ op.name = "setEnvironmentalData"
  /\ op.result = "stored"
  /\ env # DefaultEnv
  /\ ~isRunning

\* C7: in a behaviour without backend fault, a step that recomputed the
\* targets (it ramped oscillator frequencies) invoked the registered observer
\* exactly once, with 8 frequencies, and invoked nobody when no observer is
\* registered.
C7_ObserverNotifiedOnce ==
  (op.name \in {"start", "startResume", "setEnvironmentalData"}
     /\ faults = 0
     /\ Events("freqRamp") # {})
    => LET notes == SelectSeq(emitted, LAMBDA ev : ev[1] = "notify")
       IN  notes = IF onFrequencyUpdate = 0 THEN <<>>
                   ELSE << <<"notify", onFrequencyUpdate, NumOscillators>> >>

\* C8 as stated: a start() that completes leaves the targets computed from
\* the constructor's default snapshot.
C8_StartUsesDefaultSnapshot == StartCompleted => TargetsFrom(DefaultEnv)

\* C8 as amended: a start() that completes leaves the targets computed from
\* the snapshot stored in the engine, which is the last one passed to
\* setEnvironmentalData() (the default one if there was no such call).
C8_StartUsesStoredSnapshot == StartCompleted => TargetsFrom(lastSet)

\* C8 witness: a start() has completed after a snapshot other than the
\* default was stored.
C8_Witness == StartCompleted /\ lastSet # DefaultEnv

\* C10: in a behaviour without backend fault, every frequency handed to an
\* oscillator as a ramp target lies in [20, 20000] Hz.
C10_RampTargetsInRange ==
  faults = 0
    => \A j \in Events("freqRamp") :
         MinFrequency <= emitted[j][3] /\ emitted[j][3] <= MaxFrequency

\* C11: whatever humidity setEnvironmentalData() was given, below 0 and above
\* 100 included, the gains of the reverb's dry and wet paths lie in [0, 1].
C11_ReverbGainsInRange ==
  (variant = "B" /\ dryGain.ctx # 0)
    => /\ 0 <= dryGain.value /\ dryGain.value <= 1000
       /\ 0 <= wetGain.value /\ wetGain.value <= 1000

\* a step of variant B has recomputed the targets
RecomputedB ==
  /\ variant = "B"
  /\ op.name \in {"start", "startResume", "setEnvironmentalData"}
  /\ op.result = "done"

\* the partials of channels 1..7 are the product of fund, the compass
\* interval and the entries of table, as setOscillatorFrequency leaves them
PartialsFrom(fund, table) ==
  \A k \in 1 .. NumOscillators - 1 :
    oscillators[k + 1].freq =
      Max(MinFrequency,
          Min(MaxFrequency,
              (((fund * getCompassInterval(env)) \div 1000) * table[k])
                \div 1000))

CompassStep == 5

\* C13: at the heading of the snapshot the engine holds, getCompassInterval
\* is 1.5 at 0, 1.25 at 90, 1.414 at 180 and 1.778 at 270, and differs from
\* its value one degree below and one degree above (359 next to 0 included)
\* by no more than the slope of a segment allows, so no two adjacent segments
\* disagree at a quadrant boundary.
C13_CompassIntervalContinuous ==
  variant = "B"
    => LET h == JsMod(env.heading, 360)
           at(d) == getCompassInterval([env EXCEPT !.heading = d])
       IN  /\ h = 0 => getCompassInterval(env) = 1500
           /\ h = 90 => getCompassInterval(env) = 1250
           /\ h = 180 => getCompassInterval(env) = 1414
           /\ h = 270 => getCompassInterval(env) = 1778
           /\ Abs(at(h + 1) - at(h)) <= CompassStep
           /\ Abs(at(h) - at((h + 359) % 360)) <= CompassStep

\* C13 witness: the running engine has recomputed from a snapshot whose
\* heading is a quadrant boundary.
C13_Witness ==
  /\ RecomputedB
  /\ op.name = "setEnvironmentalData"
  /\ env.heading = 270

\* C14: a recomputation of variant B from the snapshot latitude 0, longitude
\* 0, speed 0, temperature 20, humidity 50, heading 0, time of day 0.5 leaves
\* sun elevation 90, fundamental 200 Hz, channel 0 at 200 Hz (no drift),
\* compass interval 1.5 (channel 1 at 200 x 1.5 x 1.5 Hz), lowpass cutoff
\* 2750 Hz, highpass cutoff 275 Hz, dry gain 0.65 and wet gain 0.4.
C14_DefaultSnapshotScenario ==
  (RecomputedB
     /\ env = [latitude |-> 0, longitude |-> 0, speed |-> 0,
               temperature |-> 20, humidity |-> 50, heading |-> 0,
               timeOfDay |-> 500])
    => /\ sunElevation = 90
       /\ fundamentalFreq = 2000
       /\ oscillators[1].freq = 2000
       /\ getCompassInterval(env) = 1500
       /\ oscillators[2].freq = 4500
       /\ lowPassFilter.value = 27500
       /\ highPassFilter.value = 2750
       /\ dryGain.value = 650
       /\ wetGain.value = 400

\* C14 witness: setEnvironmentalData() has recomputed from that snapshot in
\* a running engine.
C14_Witness ==
  /\ RecomputedB
  /\ op.name = "setEnvironmentalData"
  /\ env.humidity = 50 /\ env.heading = 0 /\ env.timeOfDay = 500
  /\ env.temperature = 20 /\ env.latitude = 0 /\ env.longitude = 0
  /\ env.speed = 0
  /\ dryGain.value = 650

\* a step of variant A has recomputed the targets
RecomputedA ==
  /\ variant = "A"
  /\ op.name \in {"start", "startResume", "setEnvironmentalData"}
  /\ op.result = "done"

\* the snapshot fields whose normalized factor enters the target of each
\* channel of variant A
FactorFields == {"latitude", "longitude", "speed", "temperature", "timeOfDay"}
DependsA ==
  <<{"latitude"}, {"longitude"}, {"speed"}, {"temperature"}, {"timeOfDay"},
    {"latitude", "speed"}, {"longitude", "temperature"}, FactorFields>>

\* the snapshot with every normalized factor of variant A at 1
AllFactorsOne ==
  [DefaultEnv EXCEPT !.latitude = 90, !.longitude = 180, !.speed = 30,
                     !.temperature = 40, !.timeOfDay = 1000]

\* C15: in variant A, against the targets computed from the snapshot the
\* engine holds, a snapshot that raises one normalized factor and keeps the
\* others gives a strictly higher target to every channel that depends on
\* that factor and the same target to every other channel; with all factors
\* at 1 channel 0 is at 55 x 1.1 Hz and channel 7 at 7040 x 1.3 Hz.
C15_StrategyAMonotonic ==
  RecomputedA
    => /\ \A f \in FactorFields : \A e2 \in GridA :
            (e2 = [env EXCEPT ![f] = e2[f]] /\ e2[f] > env[f])
              => \A k \in 1 .. NumOscillators :
                   IF f \in DependsA[k]
                   THEN CurrentFrequenciesA(e2)[k] > currentFrequencies[k]
                   ELSE CurrentFrequenciesA(e2)[k] = currentFrequencies[k]
       /\ env = AllFactorsOne
            => /\ currentFrequencies[1] = (550 * 11) \div 10
               /\ currentFrequencies[8] = (70400 * 13) \div 10

\* C15 witness: setEnvironmentalData() has recomputed from a snapshot with
\* the lowest latitude, which a snapshot of the grid raises, every other
\* factor being at 1.
C15_Witness ==
  /\ RecomputedA
  /\ op.name = "setEnvironmentalData"
  /\ env = [AllFactorsOne EXCEPT !.latitude = -90]
  /\ AllFactorsOne \in GridA

\* C16: a start() that finds its backend suspended requests a resume of it;
\* each start() that gets past the resume arms one retry timer, nothing else
\* arms one, and the retry callback makes one resume request if a backend is
\* present and suspended when it fires and none otherwise; and the single
\* start() of a behaviour without backend fault, once its resume is
\* fulfilled, completes with the engine running whether or not the backend
\* is still suspended.
C16_ResumeAndOneRetry ==
  /\ []((op.name = "start" /\ op.result = "await")
          => /\ audioContext # 0
             /\ emitted = << <<"resume", audioContext, 0>> >>)
  /\ [][/\ (op'.name \in {"start", "startResume"}
              /\ op'.result \in {"done", "threw"})
            => retryTimers' = retryTimers + 1
        /\ op'.name = "retryResume"
            => /\ retryTimers' = retryTimers - 1
               /\ emitted' =
                    IF audioContext # 0 /\ contexts[audioContext] = "suspended"
                    THEN << <<"resume", audioContext, 0>> >>
                    ELSE <<>>
        /\ retryTimers' # retryTimers
            => \/ op'.name \in {"start", "startResume"}
               \/ op'.name = "retryResume"]_vars
  /\ []((op.name = "startResume" /\ starts = 1 /\ faults = 0)
          => isRunning /\ op.result = "done")

\* C16 witness: the only start() of the behaviour has completed on a backend
\* that was still suspended, and its retry has then fired and requested the
\* resume.
C16_Witness ==
  /\ op.name = "retryResume"
  /\ op.result = "resumed"
  /\ starts = 1
  /\ faults = 0
  /\ isRunning

\* the gain requests of the last step that address channel ch
RampsOf(type, ch) == {j \in Events(type) : emitted[j][2] = ch}

\* C17: in a behaviour with one start() call and no stop, for every sporadic
\* channel: a fade-in is requested only when the channel's last gain request
\* was a fade-out or there was none (its gain target is 0), a fade-out only
\* when the last one was a fade-in (its gain target is above 0), every idle
\* callback requests a fade-in and every sustain callback a fade-out; an
\* idle timer of the channel is armed only by start() or in the step that
\* requests the channel's fade-out; and the channel never has more than one
\* armed scheduler timer.
C17_PulsesAlternate ==
  /\ [][(starts' = 1 /\ run' = 0)
          => \A ch \in SporadicChannels(variant) :
               /\ RampsOf("fadeIn", ch)' # {}
                    => /\ gainNodes[ch + 1].gain = 0
                       /\ op'.name = "fireIdle"
               /\ RampsOf("fadeOut", ch)' # {}
                    => /\ gainNodes[ch + 1].gain > 0
                       /\ op'.name = "fireSustain"
               /\ (op'.name = "fireIdle" /\ op'.ch = ch)
                    => Cardinality(RampsOf("fadeIn", ch)') = 1
               /\ (op'.name = "fireSustain" /\ op'.ch = ch)
                    => Cardinality(RampsOf("fadeOut", ch)') = 1
               /\ Cardinality(ArmedIdle(ch)') > Cardinality(ArmedIdle(ch))
                    => \/ op'.name \in {"start", "startResume"}
                       \/ RampsOf("fadeOut", ch)' # {}]_vars
  /\ []((starts = 1 /\ run = 0)
          => \A ch \in SporadicChannels(variant) : Chains(ch) <= 1)

\* C17 witness: in a behaviour with one start() and no stop, a sustain
\* callback has requested the fade-out of a channel that was faded in and
\* has armed the channel's next idle timer.
C17_Witness ==
  /\ starts = 1
  /\ run = 0
  /\ op.name = "fireSustain"
  /\ RampsOf("fadeOut", op.ch) # {}
  /\ Cardinality(ArmedIdle(op.ch)) = 1

\* C18: while the engine is running no sporadic channel is in a terminal
\* state: each has an armed scheduler timer, whose firing (which fair timers
\* grant) brings its next fade-in or fade-out.
C18_NoTerminalState ==
  isRunning => \A ch \in SporadicChannels(variant) : Chains(ch) >= 1

\* C19: a scheduler callback of channel i changes no oscillator, filter,
\* reverb or vibrato value and no gain node but channel i's, and requests no
\* frequency ramp; a setEnvironmentalData() call changes no gain node and
\* requests no gain ramp; and in variant A every gain ramp addresses channel
\* 5 or 7, start() creates the gain node of each other channel at the
\* channel's nominal volume, and no step changes the gain of such a node as
\* long as the node exists.
C19_DisjointParameters ==
  /\ [][op'.name \in {"fireIdle", "fireSustain"}
          => /\ UNCHANGED <<oscillators, vibratoLFOs, lowPassFilter,
                            highPassFilter, dryGain, wetGain, fundamentalFreq,
                            sunElevation, currentFrequencies>>
             /\ Events("freqRamp")' = {}
             /\ Len(gainNodes') = Len(gainNodes)
             /\ \A k \in 1 .. Len(gainNodes) :
                  k # op'.ch + 1 => gainNodes'[k] = gainNodes[k]]_vars
  /\ [][op'.name = "setEnvironmentalData"
          => gainNodes' = gainNodes /\ GainRamps' = {}]_vars
  /\ [](variant = "A"
          => \A j \in GainRamps : emitted[j][2] \in intermittentOscillators)
  /\ [][variant = "A"
          => /\ \A k \in 1 .. Len(gainNodes) :
                  (k <= Len(gainNodes') /\ gainNodes'[k] # gainNodes[k])
                    => (k - 1) \in intermittentOscillators
             /\ \A i \in 1 .. Len(gainNodes') - Len(gainNodes) :
                  (i - 1) \notin intermittentOscillators
                    => gainNodes'[Len(gainNodes) + i].gain
                         = oscillatorVolumes[i]]_vars

\* C19 witness: in a running engine of variant A whose channel 5 has been
\* faded in by its scheduler callback, setEnvironmentalData() has recomputed
\* the frequencies from another snapshot.
C19_Witness ==
  /\ variant = "A"
  /\ op.name = "setEnvironmentalData"
  /\ op.result = "done"
  /\ env # DefaultEnv
  /\ fires > 0
  /\ gainNodes[6].gain = oscillatorVolumes[6]
  /\ gainNodes[1].gain = oscillatorVolumes[1]

\* C20: in variant A, in a behaviour whose only start() has been followed by
\* a stop() that tore the run down, a scheduler callback that fires arms no
\* timer (so the armed timers only become fewer, down to none).
C20_NoTimerArmedAfterLastStop ==
  (variant = "A" /\ starts = 1 /\ run = 1 /\ ~isRunning
     /\ op.name \in {"fireIdle", "fireSustain"})
    => Events("arm") = {}

\* C21: in the state a stop() call leaves the engine is not running, and the
\* step that follows a stop() call makes it running only if it is a start()
\* call; so also for a stop() made while a start() awaits its resume.
C21_StaysStoppedAfterStop ==
  /\ [](op.name = "stop" => ~isRunning)
  /\ [][(op.name = "stop" /\ isRunning') => op'.name = "start"]_vars

\* C22: in a behaviour with one start() call, for every sporadic channel: a
\* fade-in is requested only when the channel's gain target is 0 (its last
\* request was a fade-out, or there was none); the channel has one pulse
\* chain at most, so its next ramp is requested only by the callback of the
\* timer armed with the last one; no callback arms a timer that is not
\* longer than the ramp it requested; and the shortest on-duration exceeds
\* the longest fade-in, the shortest idle interval the longest fade-out.
C22_NoRampCutShort ==
  /\ [][starts' = 1
          => \A ch \in SporadicChannels(variant) :
               RampsOf("fadeIn", ch)' # {} => gainNodes[ch + 1].gain = 0]_vars
  /\ [](starts = 1
          => /\ Events("cutShort") = {}
             /\ \A ch \in SporadicChannels(variant) : Chains(ch) <= 1)
  /\ [](\A ch \in SporadicChannels(variant) :
          \A r1 \in PulseRandValues, r2 \in PulseRandValues :
            /\ PulseDuration(variant, ch, r1) > FadeInLength(variant, ch, r2)
            /\ PulseInterval(variant, ch, r1) > FadeOutLength(variant, ch, r2))

\* C22 witness: in a behaviour with one start() call the second callback of
\* a pulse has requested the fade-out of a channel whose fade-in the first
\* one had requested, in a running engine.
C22_Witness ==
  /\ starts = 1
  /\ isRunning
  /\ fires = 2
  /\ op.name = "fireSustain"
  /\ RampsOf("fadeOut", op.ch) # {}
  /\ gainNodes[op.ch + 1].gain = 0

====
